---- MODULE Spec2Model ----
(***************************************************************************)
(* Model of the RLS configuration record (src/tools/rls/src/config.rs):    *)
(* the tri-state Inferrable<T> value with combine_with_default / infer /   *)
(* as_ref, and the Config record with default / update / normalise /       *)
(* needs_inference / infer_defaults.                                       *)
(*                                                                         *)
(* Option<T> is modelled as a sequence of length 0 (None) or 1 (Some(x)).  *)
(* A path is the sequence of its components; an absolute path starts with  *)
(* the root component "/".                                                 *)
(***************************************************************************)
EXTENDS Integers, Sequences, FiniteSets, TLC

VARIABLES
    cfg,          \* the live Config record
    channel,      \* option_env!("CFG_RELEASE_CHANNEL") of the build
    op,           \* the operation that produced the current state
    arg,          \* the inputs that operation consumed
    res,          \* its outcome
    cw_self,      \* combine_with_default: receiver
    cw_new,       \* combine_with_default: argument `new`
    cw_default,   \* combine_with_default: argument `default`
    cw_out,       \* combine_with_default: returned value (<<>> before the call)
    in_self,      \* infer: the receiver field
    in_start,     \* infer: the receiver before the first call
    in_calls,     \* infer: the values passed so far, in call order
    cp_value,     \* ClippyPreference decoding: the string being decoded
    cp_result     \* ClippyPreference decoding: the result (<<>> before the call)

vars == <<cfg, channel, op, arg, res, cw_self, cw_new, cw_default, cw_out,
          in_self, in_start, in_calls, cp_value, cp_result>>

cfgVars == <<cfg, channel, op, arg, res>>
cwVars  == <<cw_self, cw_new, cw_default, cw_out>>
inVars  == <<in_self, in_start, in_calls>>
cpVars  == <<cp_value, cp_result>>

-----------------------------------------------------------------------------
(* Bounds *)

MaxCalls == 3       \* longest sequence of infer calls on one field
MaxTargets == 2     \* most targets the package reports
MaxPathLen == 3     \* most components of a path held by target_dir

-----------------------------------------------------------------------------
(* Option<T> *)

NoValue == <<>>
Some(x) == <<x>>
IsSome(o) == Len(o) = 1
Unwrap(o) == o[1]

(* enum Inferrable<T> *)

Specified(v) == [tag |-> "Specified", val |-> v]
Inferred(v) == [tag |-> "Inferred", val |-> v]
None == [tag |-> "None"]

InferrableOf(T) == {Specified(v) : v \in T} \cup {Inferred(v) : v \in T} \cup {None}

is_none(self) == self.tag = "None"

IsSpecified(self) == self.tag = "Specified"
IsInferred(self) == self.tag = "Inferred"

(* Mutants of combine_with_default *)
combine_no_guard(self, new, default) ==
    IF new.tag = "None" THEN Inferred(default) ELSE new

combine_keep_specified_on_none(self, new, default) ==
    IF self.tag = "Specified" /\ new.tag \in {"Inferred", "None"} THEN self
    ELSE IF new.tag = "None" THEN Inferred(default)
    ELSE new

combine_prefer_self(self, new, default) ==
    IF self.tag = "Specified" THEN self
    ELSE IF new.tag = "None" THEN Inferred(default)
    ELSE new

(* Mutant of combine_with_default: an incoming Unset is stored as it came *)
combine_passes_unset(self, new, default) ==
    IF self.tag = "Specified" /\ new.tag = "Inferred" THEN self
    ELSE new

combine_with_default(self, new, default) ==
    IF self.tag = "Specified" /\ new.tag = "Inferred" THEN self
    ELSE IF new.tag = "None" THEN Inferred(default)
    ELSE new

(* Mutant of infer *)
infer_overriding(self, value) == Inferred(value)

(* Mutant of infer: only fills a field that holds nothing yet *)
infer_keeps_inferred(self, value) ==
    IF self.tag = "None" THEN Inferred(value) ELSE self

(* Mutant of infer: the stored value is marked as the user's own *)
infer_as_specified(self, value) ==
    IF self.tag = "Specified" THEN self ELSE Specified(value)

infer(self, value) ==
    IF self.tag = "Specified" THEN self ELSE Inferred(value)

(* as_ref reaches unreachable!() exactly on the None variant *)
as_ref_panics(self) == self.tag = "None"
as_ref(self) == self.val

-----------------------------------------------------------------------------
(* Value domains *)

Names == {"tool"}
BinValues == {NoValue} \cup {Some(n) : n \in Names}
LibValues == BOOLEAN

RelDir == <<"out">>
AbsDir == <<"/", "abs">>
DirValues == {NoValue, Some(RelDir), Some(AbsDir)}

ProjectDirs == {<<"/", "proj">>, <<"proj">>}
WsTargetDir == <<"/", "tgt">>

Channels == {NoValue, Some("nightly"), Some("stable")}

-----------------------------------------------------------------------------
(* struct Config.  Of the plain fields the model keeps unstable_features   *)
(* and workspace_mode, the two the code ever reads or writes by name; the  *)
(* others are only moved as part of the whole struct.                      *)

Configs ==
    [build_lib : InferrableOf(LibValues),
     build_bin : InferrableOf(BinValues),
     unstable_features : BOOLEAN,
     workspace_mode : BOOLEAN,
     target_dir : InferrableOf(DirValues)]

(* What deserialising yields for a tri-state field: Specified for a        *)
(* non-null value, None for null, and the field of Config::default() when  *)
(* the key is absent (#[serde(default)]).                                  *)
Deserialized(T, default) ==
    {Specified(v) : v \in T \ {NoValue}} \cup {None, Inferred(default)}

DecodedConfigs ==
    [build_lib : {Specified(v) : v \in LibValues} \cup {None, Inferred(FALSE)},
     build_bin : Deserialized(BinValues, NoValue),
     unstable_features : BOOLEAN,
     workspace_mode : BOOLEAN,
     target_dir : Deserialized(DirValues, NoValue)]

PlainFields == {"unstable_features", "workspace_mode"}
TriFields == {"build_lib", "build_bin", "target_dir"}

(* The per-field default update passes to combine_with_default *)
FieldDefault(f) == IF f = "build_lib" THEN FALSE ELSE NoValue

(* Mutant of allow_unstable: a build without a channel counts as stable *)
allow_unstable_needs_channel ==
    IF IsSome(channel) THEN Unwrap(channel) = "nightly" ELSE FALSE

allow_unstable ==
    IF IsSome(channel) THEN Unwrap(channel) = "nightly" ELSE TRUE

(* Mutant of normalise: flips the flag off-channel instead of clearing it *)
normalise_toggle(self) ==
    IF ~allow_unstable
    THEN [self EXCEPT !.unstable_features = ~self.unstable_features]
    ELSE self

normalise(self) ==
    IF ~allow_unstable THEN [self EXCEPT !.unstable_features = FALSE] ELSE self

(* normalise prints the diagnostic iff it clears a flag that was set *)
normalise_warns(self) == ~allow_unstable /\ self.unstable_features

(* Mutant of DefaultConfig: target_dir left for later inference *)
DefaultConfig_unset_target_dir ==
    normalise([build_lib |-> Inferred(FALSE),
               build_bin |-> Inferred(NoValue),
               unstable_features |-> FALSE,
               workspace_mode |-> TRUE,
               target_dir |-> None])

DefaultConfig ==
    normalise([build_lib |-> Inferred(FALSE),
               build_bin |-> Inferred(NoValue),
               unstable_features |-> FALSE,
               workspace_mode |-> TRUE,
               target_dir |-> Inferred(NoValue)])

(* Mutants of update *)
update_skip_build_lib(self, new) ==
    [new EXCEPT !.target_dir = combine_with_default(self.target_dir, new.target_dir, NoValue),
                !.build_bin = combine_with_default(self.build_bin, new.build_bin, NoValue)]

update_keep_unstable(self, new) ==
    [new EXCEPT !.target_dir = combine_with_default(self.target_dir, new.target_dir, NoValue),
                !.build_lib = combine_with_default(self.build_lib, new.build_lib, FALSE),
                !.build_bin = combine_with_default(self.build_bin, new.build_bin, NoValue),
                !.unstable_features = self.unstable_features]

update_ignore_current(self, new) ==
    [new EXCEPT !.target_dir = combine_with_default(None, new.target_dir, NoValue),
                !.build_lib = combine_with_default(None, new.build_lib, FALSE),
                !.build_bin = combine_with_default(None, new.build_bin, NoValue)]

update(self, new) ==
    LET new1 == [new EXCEPT !.target_dir =
                     combine_with_default(self.target_dir, new.target_dir, NoValue)]
        new2 == [new1 EXCEPT !.build_lib =
                     combine_with_default(self.build_lib, new1.build_lib, FALSE)]
        new3 == [new2 EXCEPT !.build_bin =
                     combine_with_default(self.build_bin, new2.build_bin, NoValue)]
        self1 == [self EXCEPT !.workspace_mode = TRUE]
        \* `*self = new` overwrites self1 as a whole
        self2 == new3
    IN  self2

needs_inference(self) ==
    is_none(self.build_bin) \/ is_none(self.build_lib) \/ is_none(self.target_dir)

-----------------------------------------------------------------------------
(* Paths *)

is_absolute(path) == Len(path) > 0 /\ path[1] = "/"
is_relative(path) == ~is_absolute(path)

(* Path::join: an absolute argument replaces the receiver *)
join(base, path) == IF is_absolute(path) THEN path ELSE base \o path

(* Path::ends_with compares whole trailing components *)
ends_with(path, name) == Len(path) > 0 /\ path[Len(path)] = name

-----------------------------------------------------------------------------
(* The project oracle (cargo): what find_root_manifest_for_wd,             *)
(* Workspace::new, ws.target_dir, ws.current and package.targets answer.   *)

LibTarget  == [kind |-> "lib", name |-> "pkg", src_path |-> <<"src", "lib.rs">>]
MainTarget == [kind |-> "bin", name |-> "app", src_path |-> <<"src", "main.rs">>]
ToolTarget == [kind |-> "bin", name |-> "tool", src_path |-> <<"src", "bin", "tool.rs">>]
UtilTarget == [kind |-> "bin", name |-> "util", src_path |-> <<"src", "bin", "util.rs">>]
CliTarget  == [kind |-> "bin", name |-> "cli", src_path |-> <<"src", "bin", "cli", "main.rs">>]
TestTarget == [kind |-> "test", name |-> "it", src_path |-> <<"tests", "it.rs">>]

TargetPool == {LibTarget, MainTarget, ToolTarget, UtilTarget, CliTarget, TestTarget}

TargetLists == UNION {[1..n -> TargetPool] : n \in 0..MaxTargets}

is_lib(x) == x.kind = "lib"
is_bin(x) == x.kind = "bin"

Min(S) == CHOOSE i \in S : \A j \in S : i <= j

(* An answer set lists only what the call goes on to ask; the rest stays   *)
(* at its blank value.                                                     *)
BlankOracle ==
    [manifest |-> FALSE, workspace |-> FALSE, current |-> FALSE,
     targets |-> <<>>, trace |-> FALSE]

Oracles(lists) ==
    {BlankOracle}
    \cup {[BlankOracle EXCEPT !.manifest = TRUE]}
    \cup {[BlankOracle EXCEPT !.manifest = TRUE, !.workspace = TRUE, !.trace = t] :
              t \in BOOLEAN}
    \cup {[BlankOracle EXCEPT !.manifest = TRUE, !.workspace = TRUE, !.trace = t,
                              !.current = TRUE, !.targets = ts] :
              t \in BOOLEAN, ts \in lists}

(* lines 244-250: a Specified relative path is joined onto project_dir *)
(* Mutant of absolutise: a relative path is kept as the user wrote it *)
absolutise_lenient(target_dir, project_dir) == target_dir

(* Mutant of absolutise: every Specified path is put under project_dir *)
absolutise_rejoin(target_dir, project_dir) ==
    IF IsSpecified(target_dir) /\ IsSome(target_dir.val)
    THEN Specified(Some(project_dir \o Unwrap(target_dir.val)))
    ELSE target_dir

absolutise(target_dir, project_dir) ==
    IF IsSpecified(target_dir) /\ IsSome(target_dir.val)
          /\ is_relative(Unwrap(target_dir.val))
    THEN Specified(Some(join(project_dir, Unwrap(target_dir.val))))
    ELSE target_dir

(* Mutant of detect_target: the first binary wins, main.rs or not *)
detect_target_first_bin(targets) ==
    LET bins == {i \in 1..Len(targets) : is_bin(targets[i])}
    IN  IF \E i \in 1..Len(targets) : is_lib(targets[i])
        THEN [ok |-> TRUE, lib |-> TRUE, bin |-> NoValue]
        ELSE IF bins = {}
        THEN [ok |-> FALSE, lib |-> FALSE, bin |-> NoValue]
        ELSE [ok |-> TRUE, lib |-> FALSE, bin |-> Some(targets[Min(bins)].name)]

(* Mutant of detect_target: a library is reported with lib = false *)
detect_target_lib_false(targets) ==
    LET bins == {i \in 1..Len(targets) : is_bin(targets[i])}
        mains == {i \in bins : ends_with(targets[i].src_path, "main.rs")}
    IN  IF \E i \in 1..Len(targets) : is_lib(targets[i])
        THEN [ok |-> TRUE, lib |-> FALSE, bin |-> NoValue]
        ELSE IF bins = {}
        THEN [ok |-> FALSE, lib |-> FALSE, bin |-> NoValue]
        ELSE IF mains /= {}
        THEN [ok |-> TRUE, lib |-> FALSE, bin |-> Some(targets[Min(mains)].name)]
        ELSE [ok |-> TRUE, lib |-> FALSE, bin |-> Some(targets[Min(bins)].name)]

(* lines 275-292: the target the package suggests; ok = FALSE is the       *)
(* "No `bin` or `lib` targets in the package" error                        *)
detect_target(targets) ==
    LET bins == {i \in 1..Len(targets) : is_bin(targets[i])}
        mains == {i \in bins : ends_with(targets[i].src_path, "main.rs")}
    IN  IF \E i \in 1..Len(targets) : is_lib(targets[i])
        THEN [ok |-> TRUE, lib |-> TRUE, bin |-> NoValue]
        ELSE IF bins = {}
        THEN [ok |-> FALSE, lib |-> FALSE, bin |-> NoValue]
        ELSE IF mains /= {}
        THEN [ok |-> TRUE, lib |-> FALSE, bin |-> Some(targets[Min(mains)].name)]
        ELSE [ok |-> TRUE, lib |-> FALSE, bin |-> Some(targets[Min(bins)].name)]

(* Mutant of override_target: a specified binary does not rule out the library *)
override_target_lib_with_bin(self, lib, bin) ==
    IF self.build_lib = Specified(TRUE) THEN [lib |-> lib, bin |-> NoValue]
    ELSE [lib |-> lib, bin |-> bin]

(* lines 303-307: what the user specified overrides the detected shape *)
override_target(self, lib, bin) ==
    IF self.build_lib = Specified(TRUE) THEN [lib |-> lib, bin |-> NoValue]
    ELSE IF IsSpecified(self.build_bin) /\ IsSome(self.build_bin.val)
    THEN [lib |-> FALSE, bin |-> bin]
    ELSE [lib |-> lib, bin |-> bin]

(* Mutant of rls_target_dir: cargo's own directory is used as it is *)
rls_target_dir_shared(ws_target_dir) == ws_target_dir

(* lines 252-253: where the artifacts go inside cargo's target directory *)
rls_target_dir(ws_target_dir) == join(ws_target_dir, <<"rls">>)

(* lines 244-260: target_dir is made absolute, or inferred when it holds   *)
(* no path                                                                 *)
infer_target_dir(self, project_dir, o) ==
    LET s1 == [self EXCEPT !.target_dir = absolutise(@, project_dir)] IN
    IF as_ref_panics(s1.target_dir) THEN [cfg |-> s1, res |-> "panic"]
    ELSE
    LET s2 == IF ~IsSome(as_ref(s1.target_dir))
              THEN [s1 EXCEPT !.target_dir =
                        infer(@, Some(rls_target_dir(WsTargetDir)))]
              ELSE s1
    IN
    \* line 258: the trace! arguments unwrap the value just inferred
    IF ~IsSome(as_ref(s1.target_dir)) /\ o.trace /\ ~IsSome(as_ref(s2.target_dir))
    THEN [cfg |-> s2, res |-> "panic"]
    ELSE [cfg |-> s2, res |-> "Ok"]

(* lines 268-312: build_lib and build_bin from the current package *)
infer_package(self, o) ==
    IF ~o.current THEN [cfg |-> self, res |-> "Err(current)"]
    ELSE
    LET d == detect_target(o.targets) IN
    IF ~d.ok THEN [cfg |-> self, res |-> "Err(no target)"]
    ELSE
    LET t == override_target(self, d.lib, d.bin) IN
    [cfg |-> [self EXCEPT !.build_lib = infer(@, t.lib),
                          !.build_bin = infer(@, t.bin)],
     res |-> "Ok"]

(* lines 244-312: everything after the workspace has been constructed *)
(* Mutant of infer_in_workspace: target selection runs in every mode *)
infer_in_workspace_any_mode(self, project_dir, o) ==
    LET d == infer_target_dir(self, project_dir, o) IN
    IF d.res = "panic" THEN d
    ELSE infer_package(d.cfg, o)

infer_in_workspace(self, project_dir, o) ==
    LET d == infer_target_dir(self, project_dir, o) IN
    IF d.res = "panic" THEN d
    ELSE IF d.cfg.workspace_mode THEN [cfg |-> d.cfg, res |-> "Ok"]
    ELSE infer_package(d.cfg, o)

(* Mutant of infer_defaults: adjusts target_dir before looking for the     *)
(* manifest                                                                *)
infer_defaults_dir_first(self, project_dir, o) ==
    LET s1 == [self EXCEPT !.target_dir = absolutise(@, project_dir)] IN
    IF ~o.manifest THEN [cfg |-> s1, res |-> "Err(manifest)"]
    ELSE IF ~o.workspace THEN [cfg |-> s1, res |-> "Err(workspace)"]
    ELSE infer_in_workspace(self, project_dir, o)

infer_defaults(self, project_dir, o) ==
    IF ~o.manifest THEN [cfg |-> self, res |-> "Err(manifest)"]
    ELSE IF ~o.workspace THEN [cfg |-> self, res |-> "Err(workspace)"]
    ELSE infer_in_workspace(self, project_dir, o)

(* The part of an answer set the call consumed on the path it took *)
asked(self, o) ==
    LET no_path == ~as_ref_panics(self.target_dir) /\ ~IsSome(as_ref(self.target_dir))
        r == infer_defaults(self, <<"/">>, o)
        past_dir == o.manifest /\ o.workspace /\ r.res /= "panic"
                       /\ ~self.workspace_mode
    IN  [manifest |-> o.manifest,
         workspace |-> o.manifest /\ o.workspace,
         trace |-> o.manifest /\ o.workspace /\ no_path /\ o.trace,
         current |-> past_dir /\ o.current,
         targets |-> IF past_dir /\ o.current THEN o.targets ELSE <<>>]

PathFits(target_dir) ==
    IF is_none(target_dir) THEN TRUE
    ELSE IF ~IsSome(target_dir.val) THEN TRUE
    ELSE Len(Unwrap(target_dir.val)) <= MaxPathLen

-----------------------------------------------------------------------------
(* The life of the live record *)

NoArg == <<>>

FieldValues(f) ==
    IF f = "build_lib" THEN LibValues
    ELSE IF f = "build_bin" THEN BinValues
    ELSE DirValues

(* The answer sets worth asking in a given record: the package is only    *)
(* looked at outside workspace mode, the log level only when target_dir     *)
(* holds no path.                                                          *)
OraclesFor(self, lists) ==
    {o \in Oracles(lists) : /\ self.workspace_mode => ~o.current
                     /\ o.trace => is_none(self.target_dir) \/ ~IsSome(self.target_dir.val)}

DoUpdate(new) ==
    /\ cfg' = update(cfg, new)
    /\ arg' = new
    /\ op' = "update"
    /\ res' = "Ok"
    /\ UNCHANGED <<channel, cwVars, inVars, cpVars>>

DoNormalise ==
    /\ cfg' = normalise(cfg)
    /\ op' = "normalise"
    /\ arg' = NoArg
    /\ res' = IF normalise_warns(cfg) THEN "Warned" ELSE "Ok"
    /\ UNCHANGED <<channel, cwVars, inVars, cpVars>>

DoInfer(f, value) ==
    /\ cfg' = [cfg EXCEPT ![f] = infer(@, value)]
    /\ arg' = [field |-> f, value |-> value]
    /\ op' = "infer"
    /\ res' = "Ok"
    /\ UNCHANGED <<channel, cwVars, inVars, cpVars>>

DoInferDefaults(project_dir, o) ==
    LET r == infer_defaults(cfg, project_dir, o) IN
        /\ PathFits(r.cfg.target_dir)
        /\ cfg' = r.cfg
        /\ res' = r.res
        /\ arg' = [project_dir |-> project_dir, oracle |-> asked(cfg, o)]
        /\ op' = "infer_defaults"
        /\ UNCHANGED <<channel, cwVars, inVars, cpVars>>

(* The session: default(), then decoded updates, normalise and             *)
(* infer_defaults in any order.  The package the session looks at has one  *)
(* of a few shapes; target selection over every list up to MaxTargets is   *)
(* examined one call at a time below.                                      *)
SessionPackages ==
    {<<>>, <<TestTarget>>, <<LibTarget>>, <<MainTarget>>,
     <<ToolTarget, MainTarget>>, <<LibTarget, ToolTarget>>}

Update ==
    /\ res /= "panic"
    /\ \E new \in DecodedConfigs : DoUpdate(new)

Normalise ==
    /\ res /= "panic"
    /\ DoNormalise

InferDefaults ==
    /\ res /= "panic"
    /\ \E project_dir \in ProjectDirs, o \in OraclesFor(cfg, SessionPackages) :
          DoInferDefaults(project_dir, o)

Next == Update \/ Normalise \/ InferDefaults

IdleCombine ==
    /\ cw_self = None
    /\ cw_new = None
    /\ cw_default = NoValue
    /\ cw_out = NoValue

IdleInfer ==
    /\ in_self = None
    /\ in_start = None
    /\ in_calls = <<>>

IdleClippy ==
    /\ cp_value = <<>>
    /\ cp_result = NoValue

(* Config::default() *)
Init ==
    /\ channel \in Channels
    /\ cfg = DefaultConfig
    /\ op = "default"
    /\ arg = NoArg
    /\ res = "Ok"
    /\ IdleCombine
    /\ IdleInfer
    /\ IdleClippy

Spec == Init /\ [][Next]_vars

(* One operation applied to any value of the public struct Config with    *)
(* any arguments.                                                          *)
InitAny ==
    /\ channel \in Channels
    /\ cfg \in Configs
    /\ op = "new"
    /\ arg = NoArg
    /\ res = "Ok"
    /\ IdleCombine
    /\ IdleInfer
    /\ IdleClippy

UpdateAny ==
    /\ op = "new"
    /\ \E new \in Configs : DoUpdate(new)

NormaliseAny ==
    /\ op = "new"
    /\ DoNormalise

InferAny ==
    /\ op = "new"
    /\ \E f \in TriFields :
          \E value \in FieldValues(f) : DoInfer(f, value)

InferDefaultsAny ==
    /\ op = "new"
    /\ \E project_dir \in ProjectDirs, o \in OraclesFor(cfg, TargetLists) :
          DoInferDefaults(project_dir, o)

NextAny == UpdateAny \/ NormaliseAny \/ InferAny \/ InferDefaultsAny

SpecAny == InitAny /\ [][NextAny]_vars

-----------------------------------------------------------------------------
(* combine_with_default as a function of its three arguments *)

IdleConfig ==
    /\ channel = NoValue
    /\ cfg = DefaultConfig
    /\ op = "default"
    /\ arg = NoArg
    /\ res = "Ok"

InitCombine ==
    /\ IdleConfig
    /\ IdleInfer
    /\ IdleClippy
    /\ cw_out = NoValue
    /\ \/ /\ cw_self \in InferrableOf(LibValues)
          /\ cw_new \in InferrableOf(LibValues)
          /\ cw_default \in LibValues
       \/ /\ cw_self \in InferrableOf(BinValues)
          /\ cw_new \in InferrableOf(BinValues)
          /\ cw_default \in BinValues
       \/ /\ cw_self \in InferrableOf(DirValues)
          /\ cw_new \in InferrableOf(DirValues)
          /\ cw_default \in DirValues

Combine ==
    /\ cw_out = NoValue
    /\ cw_out' = Some(combine_with_default(cw_self, cw_new, cw_default))
    /\ UNCHANGED <<cw_self, cw_new, cw_default, cfgVars, inVars, cpVars>>

NextCombine == Combine

SpecCombine == InitCombine /\ [][NextCombine]_vars

-----------------------------------------------------------------------------
(* Repeated infer on one field; infer never inspects the value, so the     *)
(* field type is fixed to Option<PathBuf>.                                 *)

InitInfer ==
    /\ IdleConfig
    /\ IdleCombine
    /\ IdleClippy
    /\ in_self \in InferrableOf(DirValues)
    /\ in_start = in_self
    /\ in_calls = <<>>

Infer ==
    /\ Len(in_calls) < MaxCalls
    /\ \E value \in DirValues :
          /\ in_self' = infer(in_self, value)
          /\ in_calls' = Append(in_calls, value)
    /\ UNCHANGED <<in_start, cfgVars, cwVars, cpVars>>

NextInfer == Infer

SpecInfer == InitInfer /\ [][NextInfer]_vars

-----------------------------------------------------------------------------
(* enum ClippyPreference and its permissive decoding.  A string is the     *)
(* sequence of its characters; a character is the one-letter string, with  *)
(* "I_dot" standing for U+0130 and "dot_above" for U+0307.                 *)

UpperOf ==
    [o |-> "O", f |-> "F", n |-> "N", p |-> "P", t |-> "T", i |-> "I",
     b |-> "B", g |-> "G", u |-> "U", s |-> "S"]

Upper(c) == IF c \in DOMAIN UpperOf THEN UpperOf[c] ELSE c

(* char::to_lowercase: one character may become several *)
LowerChar(c) ==
    IF \E l \in DOMAIN UpperOf : UpperOf[l] = c
    THEN <<CHOOSE l \in DOMAIN UpperOf : UpperOf[l] = c>>
    ELSE IF c = "I_dot" THEN <<"i", "dot_above">>
    ELSE <<c>>

RECURSIVE to_lowercase(_)
to_lowercase(s) ==
    IF Len(s) = 0 THEN <<>>
    ELSE LowerChar(Head(s)) \o to_lowercase(Tail(s))

Str_off == <<"o", "f", "f">>
Str_optin == <<"o", "p", "t", "i", "n">>
Str_opt_in == <<"o", "p", "t", "-", "i", "n">>
Str_on == <<"o", "n">>

Ok(v) == [ok |-> TRUE, val |-> v]
Err(e) == [ok |-> FALSE, err |-> e]

(* Mutant of from_str: matches the string as written *)
from_str_case_sensitive(s) ==
    IF s = Str_off THEN Ok("Off")
    ELSE IF s = Str_optin \/ s = Str_opt_in THEN Ok("OptIn")
    ELSE IF s = Str_on THEN Ok("On")
    ELSE Err(<<>>)

from_str(s) ==
    LET l == to_lowercase(s) IN
    IF l = Str_off THEN Ok("Off")
    ELSE IF l = Str_optin \/ l = Str_opt_in THEN Ok("OptIn")
    ELSE IF l = Str_on THEN Ok("On")
    ELSE Err(<<>>)

(* ClippyPrefDeserializer::visit_str *)
visit_str(value) ==
    LET r == from_str(value) IN
    IF r.ok THEN r
    ELSE Err([kind |-> "unknown_variant", value |-> value,
              expected |-> <<"on", "opt-in", "off">>])

(* Every upper/lower-case spelling of a word *)
Spellings(w) ==
    {[i \in 1..Len(w) |-> IF i \in U THEN Upper(w[i]) ELSE w[i]] :
        U \in SUBSET (1..Len(w))}

Words ==
    {Str_off, Str_optin, Str_opt_in, Str_on,
     <<"b", "o", "g", "u", "s">>, <<"o", "p", "t", "_", "i", "n">>,
     <<"o", "p", "t", " ", "i", "n">>, <<"o", "n", " ">>, <<" ", "o", "n">>,
     <<"o", "f">>, <<"o", "n", "n">>, <<"o">>, <<>>,
     <<"o", "p", "t", "I_dot", "n">>, <<"o", "p", "t", "-", "o", "n">>}

ClippyInputs == UNION {Spellings(w) : w \in Words}

InitClippy ==
    /\ IdleConfig
    /\ IdleCombine
    /\ IdleInfer
    /\ cp_value \in ClippyInputs
    /\ cp_result = NoValue

Decode ==
    /\ cp_result = NoValue
    /\ cp_result' = Some(visit_str(cp_value))
    /\ UNCHANGED <<cp_value, cfgVars, cwVars, inVars>>

NextClippy == Decode

SpecClippy == InitClippy /\ [][NextClippy]_vars

-----------------------------------------------------------------------------
(* Properties of combine_with_default (SpecCombine) *)

Returned == IsSome(cw_out)

\* C2: combining a Specified current value with an Inferred incoming one
\* returns the current value unchanged, whatever the default.
C2_SpecifiedBeatsInferred ==
    (Returned /\ IsSpecified(cw_self) /\ IsInferred(cw_new))
        => Unwrap(cw_out) = Specified(cw_self.val)

C2_Witness ==
    /\ Returned
    /\ IsSpecified(cw_self)
    /\ IsInferred(cw_new)
    /\ cw_new.val /= cw_self.val
    /\ cw_default /= cw_self.val
    /\ Unwrap(cw_out) = cw_self

\* C3: an Unset incoming value resolves to Inferred(default) for every
\* current state, Specified included.
C3_UnsetGivesInferredDefault ==
    (Returned /\ is_none(cw_new)) => Unwrap(cw_out) = Inferred(cw_default)

C3_Witness ==
    /\ Returned
    /\ is_none(cw_new)
    /\ IsSpecified(cw_self)
    /\ cw_self.val /= cw_default
    /\ Unwrap(cw_out) = Inferred(cw_default)

\* C4: the incoming value is returned as given (tag and value) when it is
\* Specified, or when it is Inferred and the current value is not Specified;
\* the call changes neither the current nor the incoming value.
C4_IncomingAsGiven ==
    /\ [](Returned /\ (IsSpecified(cw_new)
                          \/ (IsInferred(cw_new) /\ ~IsSpecified(cw_self)))
            => Unwrap(cw_out) = cw_new)
    /\ [][cw_self' = cw_self /\ cw_new' = cw_new]_vars

C4_Witness ==
    /\ Returned
    /\ IsSpecified(cw_self)
    /\ IsSpecified(cw_new)
    /\ cw_new.val /= cw_self.val
    /\ Unwrap(cw_out) = cw_new

-----------------------------------------------------------------------------
(* Properties of infer (SpecInfer) *)

\* C5: after infer(v1) then infer(v2) a field that started Specified(s) is
\* still Specified(s) and any other field is Inferred(v2); after any
\* number of calls the field is Specified only if it started so (and is
\* then unchanged) and is never Unset.
C5_InferNonOverridingLastWins ==
    /\ Len(in_calls) = 2 =>
          IF IsSpecified(in_start) THEN in_self = in_start
          ELSE in_self = Inferred(in_calls[2])
    /\ Len(in_calls) >= 1 =>
          IF IsSpecified(in_start) THEN in_self = in_start
          ELSE IsInferred(in_self)

C5_Witness ==
    /\ Len(in_calls) = 2
    /\ IsSpecified(in_start)
    /\ in_calls[1] /= in_calls[2]
    /\ in_calls[2] /= in_start.val
    /\ in_self = in_start

-----------------------------------------------------------------------------
(* Properties of one operation on any record (SpecAny) *)

Errs == {"Err(manifest)", "Err(workspace)", "Err(current)", "Err(no target)"}

\* C1 as stated: once a tri-state field is Specified, every later step of
\* update, infer or infer_defaults leaves it Specified.
C1_SpecifiedAbsorbing ==
    [][\A f \in TriFields : IsSpecified(cfg[f]) => IsSpecified(cfg'[f])]_vars

\* C1 amended: a Specified field stays Specified under infer, infer_defaults
\* and update, except that an update whose incoming field is Unset resets it
\* to Inferred(field default).
C1_SpecifiedAbsorbingUnlessUnset ==
    [][\A f \in TriFields :
          IsSpecified(cfg[f]) =>
              IF op' = "update" /\ is_none(arg'[f])
              THEN cfg'[f] = Inferred(FieldDefault(f))
              ELSE IsSpecified(cfg'[f])]_vars

C1_Witness ==
    /\ op = "update"
    /\ IsInferred(arg.build_lib)
    /\ IsInferred(arg.build_bin)
    /\ IsInferred(arg.target_dir)
    /\ cfg.build_lib = Specified(TRUE)
    /\ cfg.build_bin = Specified(Some("tool"))
    /\ cfg.target_dir = Specified(Some(AbsDir))

\* C7: after update no tri-state field is Unset, so needs_inference is
\* false, and a field whose incoming value was Unset holds
\* Inferred(field default).
C7_UpdateLeavesNothingUnset ==
    op = "update" =>
        /\ ~needs_inference(cfg)
        /\ \A f \in TriFields : ~is_none(cfg[f])
        /\ \A f \in TriFields :
              is_none(arg[f]) => cfg[f] = Inferred(FieldDefault(f))

C7_Witness ==
    /\ op = "update"
    /\ \A f \in TriFields : is_none(arg[f])
    /\ cfg.build_lib = Inferred(FALSE)
    /\ cfg.build_bin = Inferred(NoValue)
    /\ cfg.target_dir = Inferred(NoValue)

\* C8: update makes every plain field other than workspace_mode equal to
\* the incoming one and every tri-state field equal to
\* combine_with_default(current, incoming, field default); from default(),
\* incoming build_bin = Specified(Some("tool")) with build_lib Unset gives
\* build_bin = Specified(Some("tool")) and build_lib = Inferred(false).
C8_UpdateReplacesWholesale ==
    [][op' = "update" =>
          /\ cfg'.unstable_features = arg'.unstable_features
          /\ \A f \in TriFields :
                cfg'[f] = combine_with_default(cfg[f], arg'[f], FieldDefault(f))
          /\ (/\ cfg = DefaultConfig
              /\ arg'.build_bin = Specified(Some("tool"))
              /\ is_none(arg'.build_lib))
                => /\ cfg'.build_bin = Specified(Some("tool"))
                   /\ cfg'.build_lib = Inferred(FALSE)]_vars

C8_Witness ==
    /\ op = "update"
    /\ arg.build_bin = Specified(Some("tool"))
    /\ is_none(arg.build_lib)
    /\ arg.unstable_features
    /\ cfg.build_bin = Specified(Some("tool"))
    /\ cfg.build_lib = Inferred(FALSE)
    /\ cfg.unstable_features

\* C9 as stated: a failing infer_defaults leaves every field of the record
\* as it was before the call.
C9_FailureChangesNothing ==
    [][(op' = "infer_defaults" /\ res' \in Errs) => cfg' = cfg]_vars

\* C9 amended: a failure at the manifest or the workspace leaves the record
\* as it was; a later failure (current package, no lib or bin target) leaves
\* build_lib, build_bin and the plain fields as they were, while target_dir
\* keeps what the completed steps gave it: a Specified relative path joined
\* onto project_dir, a missing path inferred from the workspace.
C9_FailureKeepsAllButTargetDir ==
    [][(op' = "infer_defaults" /\ res' \in Errs) =>
          /\ \A f \in (TriFields \cup PlainFields) \ {"target_dir"} :
                cfg'[f] = cfg[f]
          /\ res' \in {"Err(manifest)", "Err(workspace)"} => cfg' = cfg
          /\ res' \in {"Err(current)", "Err(no target)"} =>
                /\ ~cfg.workspace_mode
                /\ cfg'.target_dir =
                      IF IsSpecified(cfg.target_dir)
                      THEN absolutise(cfg.target_dir, arg'.project_dir)
                      ELSE IF IsSome(cfg.target_dir.val) THEN cfg.target_dir
                      ELSE Inferred(Some(WsTargetDir \o <<"rls">>))]_vars

C9_Witness ==
    /\ op = "infer_defaults"
    /\ res = "Err(no target)"
    /\ arg.oracle.targets = <<TestTarget>>
    /\ cfg.target_dir = Inferred(Some(<<"/", "tgt", "rls">>))

\* C10: normalise applied to a record that normalise produced returns the
\* same record, on every channel.
C10_NormaliseIdempotent ==
    op = "normalise" => normalise(cfg) = cfg

C10_Witness ==
    /\ op = "normalise"
    /\ res = "Warned"
    /\ ~allow_unstable
    /\ ~cfg.unstable_features
    /\ normalise(cfg) = cfg

\* C11: on a channel that does not permit unstable features normalise
\* leaves unstable_features false; on nightly or with no channel configured
\* it leaves the whole record as it was; it always returns and changes no
\* field other than unstable_features.
C11_NormaliseClampsOffChannel ==
    [][op' = "normalise" =>
          /\ res' \in {"Ok", "Warned"}
          /\ \A f \in (TriFields \cup PlainFields) \ {"unstable_features"} :
                cfg'[f] = cfg[f]
          /\ IF channel = NoValue \/ channel = Some("nightly")
             THEN cfg' = cfg
             ELSE cfg'.unstable_features = FALSE]_vars

C11_Witness ==
    /\ op = "normalise"
    /\ res = "Warned"
    /\ channel = Some("stable")
    /\ cfg.unstable_features = FALSE
    /\ cfg.workspace_mode = FALSE
    /\ cfg.build_bin = Specified(Some("tool"))

(* A step in which infer_defaults, outside workspace mode, got as far as   *)
(* listing the targets of the current package                              *)
ListedTargets ==
    /\ op' = "infer_defaults"
    /\ ~cfg.workspace_mode
    /\ arg'.oracle.current

HasLib(targets) == \E i \in 1..Len(targets) : targets[i].kind = "lib"
HasBin(targets) == \E i \in 1..Len(targets) : targets[i].kind = "bin"
OnlyLibs(targets) ==
    /\ Len(targets) >= 1
    /\ \A i \in 1..Len(targets) : targets[i].kind = "lib"

\* C14 as stated: in single-package mode, on a package whose only target is
\* a library, infer_defaults does not give build_bin a name, and build_lib
\* ends as Inferred(true) whenever it started Unset or Inferred, whatever
\* build_bin started as.
C14_LibOnlyPackage ==
    [][(ListedTargets /\ OnlyLibs(arg'.oracle.targets)) =>
          /\ res' = "Ok"
          /\ IF IsSpecified(cfg.build_bin)
             THEN cfg'.build_bin = cfg.build_bin
             ELSE cfg'.build_bin = Inferred(NoValue)
          /\ ~IsSpecified(cfg.build_lib) => cfg'.build_lib = Inferred(TRUE)]_vars

\* C14 amended: as stated, except that build_lib ends as Inferred(true)
\* only when build_bin is not Specified with a name; when build_bin is
\* Specified(Some(n)), a build_lib that started Unset or Inferred ends as
\* Inferred(false).
C14_LibOnlyPackageUnlessBinSpecified ==
    [][(ListedTargets /\ OnlyLibs(arg'.oracle.targets)) =>
          /\ res' = "Ok"
          /\ IF IsSpecified(cfg.build_bin)
             THEN cfg'.build_bin = cfg.build_bin
             ELSE cfg'.build_bin = Inferred(NoValue)
          /\ ~IsSpecified(cfg.build_lib) =>
                IF IsSpecified(cfg.build_bin) /\ IsSome(cfg.build_bin.val)
                THEN cfg'.build_lib = Inferred(FALSE)
                ELSE cfg'.build_lib = Inferred(TRUE)]_vars

C14_Witness ==
    /\ op = "infer_defaults"
    /\ res = "Ok"
    /\ ~cfg.workspace_mode
    /\ arg.oracle.targets = <<LibTarget>>
    /\ cfg.build_lib = Inferred(TRUE)
    /\ cfg.build_bin = Inferred(NoValue)

\* C15 as stated: in single-package mode with build_lib = Specified(true),
\* on a package with both a library and a binary target, infer_defaults
\* keeps build_lib = Specified(true) and leaves build_bin exactly as it
\* was, whatever it started as.
C15_SpecifiedLibKeepsBin ==
    [][(/\ ListedTargets
        /\ cfg.build_lib = Specified(TRUE)
        /\ HasLib(arg'.oracle.targets)
        /\ HasBin(arg'.oracle.targets)) =>
          /\ res' = "Ok"
          /\ cfg'.build_lib = Specified(TRUE)
          /\ cfg'.build_bin = cfg.build_bin]_vars

\* C15 amended: build_lib stays Specified(true) and build_bin is never set
\* to a detected binary name: a Specified build_bin is exactly as it was,
\* while a build_bin that was Inferred or Unset ends as Inferred(no name).
C15_SpecifiedLibClearsInferredBin ==
    [][(/\ ListedTargets
        /\ cfg.build_lib = Specified(TRUE)
        /\ HasLib(arg'.oracle.targets)
        /\ HasBin(arg'.oracle.targets)) =>
          /\ res' = "Ok"
          /\ cfg'.build_lib = Specified(TRUE)
          /\ IF IsSpecified(cfg.build_bin)
             THEN cfg'.build_bin = cfg.build_bin
             ELSE cfg'.build_bin = Inferred(NoValue)]_vars

C15_Witness ==
    /\ op = "infer_defaults"
    /\ res = "Ok"
    /\ ~cfg.workspace_mode
    /\ arg.oracle.targets = <<LibTarget, MainTarget>>
    /\ cfg.build_lib = Specified(TRUE)
    /\ cfg.build_bin = Specified(Some("tool"))

(* A step in which infer_defaults found the manifest and constructed the   *)
(* workspace                                                               *)
ResolvedWorkspace ==
    /\ op' = "infer_defaults"
    /\ arg'.oracle.manifest
    /\ arg'.oracle.workspace

HoldsPath(target_dir) == ~is_none(target_dir) /\ IsSome(target_dir.val)

\* C17 as stated: with an absolute project root, infer_defaults turns
\* Specified(relative p) into Specified(project root joined with p) and
\* leaves a Specified absolute path alone; after a successful call every
\* path held by target_dir is absolute.
C17_TargetDirAbsolute ==
    [][(op' = "infer_defaults" /\ is_absolute(arg'.project_dir)) =>
          /\ (IsSpecified(cfg.target_dir) /\ HoldsPath(cfg.target_dir)) =>
                IF is_relative(Unwrap(cfg.target_dir.val))
                THEN cfg'.target_dir =
                       Specified(Some(arg'.project_dir \o Unwrap(cfg.target_dir.val)))
                ELSE cfg'.target_dir = cfg.target_dir
          /\ (res' = "Ok" /\ HoldsPath(cfg'.target_dir)) =>
                is_absolute(Unwrap(cfg'.target_dir.val))]_vars

\* C17 amended: the rewrite of a Specified relative path happens once the
\* manifest and the workspace have resolved (an earlier failure leaves the
\* relative path); after a successful call a Specified path and a path the
\* call inferred are absolute, while a path that was already Inferred before
\* the call is kept as it was, relative or not.
C17_SpecifiedTargetDirAbsolute ==
    [][(op' = "infer_defaults" /\ is_absolute(arg'.project_dir)) =>
          /\ (IsSpecified(cfg.target_dir) /\ HoldsPath(cfg.target_dir)) =>
                IF is_relative(Unwrap(cfg.target_dir.val))
                THEN IF arg'.oracle.manifest /\ arg'.oracle.workspace
                     THEN cfg'.target_dir =
                            Specified(Some(arg'.project_dir \o Unwrap(cfg.target_dir.val)))
                     ELSE cfg'.target_dir = cfg.target_dir
                ELSE cfg'.target_dir = cfg.target_dir
          /\ (IsInferred(cfg.target_dir) /\ HoldsPath(cfg.target_dir)) =>
                cfg'.target_dir = cfg.target_dir
          /\ (/\ res' = "Ok"
              /\ HoldsPath(cfg'.target_dir)
              /\ IsSpecified(cfg.target_dir) \/ ~HoldsPath(cfg.target_dir)) =>
                is_absolute(Unwrap(cfg'.target_dir.val))]_vars

C17_Witness ==
    /\ op = "infer_defaults"
    /\ res = "Ok"
    /\ arg.project_dir = <<"/", "proj">>
    /\ cfg.target_dir = Specified(Some(<<"/", "proj", "out">>))

\* C18: in whole-workspace mode infer_defaults never fails for want of a
\* current package or of a buildable target, a successful call leaves
\* build_lib, build_bin and the plain fields exactly as they were, and the
\* outcome is the same whatever the oracle would have said about the
\* package and its targets.
C18_WorkspaceModeSkipsTargets ==
    [][(op' = "infer_defaults" /\ cfg.workspace_mode) =>
          /\ res' \notin {"Err(current)", "Err(no target)"}
          /\ res' = "Ok" =>
                /\ cfg'.build_lib = cfg.build_lib
                /\ cfg'.build_bin = cfg.build_bin
                /\ \A f \in PlainFields : cfg'[f] = cfg[f]
          /\ \A ts \in SessionPackages, c \in BOOLEAN :
                LET o == [arg'.oracle EXCEPT !.current = c, !.targets = ts]
                    r == infer_defaults(cfg, arg'.project_dir, o)
                IN  r.cfg = cfg' /\ r.res = res']_vars

C18_Witness ==
    /\ op = "infer_defaults"
    /\ res = "Ok"
    /\ cfg.workspace_mode
    /\ cfg.build_lib = Inferred(FALSE)
    /\ cfg.build_bin = Inferred(NoValue)
    /\ cfg.target_dir = Inferred(Some(<<"/", "tgt", "rls">>))

\* C19: in single-package mode with neither build_lib nor build_bin
\* Specified, a package with a library gives build_lib = Inferred(true) and
\* no binary; without a library the call gives build_lib = Inferred(false)
\* and the name of the first binary whose path ends with main.rs, or of the
\* first binary when none does; with no library and no binary the call
\* fails with the no-buildable-target error.
C19_DetectedTarget ==
    [][(/\ ListedTargets
        /\ ~IsSpecified(cfg.build_lib)
        /\ ~IsSpecified(cfg.build_bin)) =>
          LET ts == arg'.oracle.targets
              IsMain(i) == /\ ts[i].kind = "bin"
                           /\ ts[i].src_path[Len(ts[i].src_path)] = "main.rs"
              Picked(i) ==
                  IF \E j \in 1..Len(ts) : IsMain(j)
                  THEN IsMain(i) /\ \A j \in 1..(i - 1) : ~IsMain(j)
                  ELSE /\ ts[i].kind = "bin"
                       /\ \A j \in 1..(i - 1) : ts[j].kind /= "bin"
          IN  IF HasLib(ts)
              THEN /\ res' = "Ok"
                   /\ cfg'.build_lib = Inferred(TRUE)
                   /\ cfg'.build_bin = Inferred(NoValue)
              ELSE IF ~HasBin(ts)
              THEN res' = "Err(no target)"
              ELSE /\ res' = "Ok"
                   /\ cfg'.build_lib = Inferred(FALSE)
                   /\ \E i \in 1..Len(ts) :
                         /\ Picked(i)
                         /\ cfg'.build_bin = Inferred(Some(ts[i].name))]_vars

C19_Witness ==
    /\ op = "infer_defaults"
    /\ res = "Ok"
    /\ arg.oracle.targets = <<ToolTarget, CliTarget>>
    /\ cfg.build_lib = Inferred(FALSE)
    /\ cfg.build_bin = Inferred(Some("cli"))

\* C20: in single-package mode, a successful infer_defaults on a record
\* whose build_bin is Specified with a name and whose build_lib is not
\* Specified ends with build_lib = Inferred(false) and build_bin as the
\* user specified it, whatever targets the package has.
C20_SpecifiedBinRulesOutLib ==
    [][(/\ op' = "infer_defaults"
        /\ ~cfg.workspace_mode
        /\ res' = "Ok"
        /\ IsSpecified(cfg.build_bin)
        /\ IsSome(cfg.build_bin.val)
        /\ ~IsSpecified(cfg.build_lib)) =>
          /\ cfg'.build_lib = Inferred(FALSE)
          /\ cfg'.build_bin = cfg.build_bin]_vars

C20_Witness ==
    /\ op = "infer_defaults"
    /\ res = "Ok"
    /\ ~cfg.workspace_mode
    /\ arg.oracle.targets = <<LibTarget, MainTarget>>
    /\ cfg.build_lib = Inferred(FALSE)
    /\ cfg.build_bin = Specified(Some("tool"))

\* C21: whatever its outcome, infer_defaults leaves a Specified build_lib
\* and a Specified build_bin exactly as they were, and each of the three
\* tri-state fields is Specified after the call iff it was before.
C21_SpecifiedIffSpecified ==
    [][op' = "infer_defaults" =>
          /\ \A f \in TriFields : IsSpecified(cfg'[f]) <=> IsSpecified(cfg[f])
          /\ \A f \in {"build_lib", "build_bin"} :
                IsSpecified(cfg[f]) => cfg'[f] = cfg[f]]_vars

C21_Witness ==
    /\ op = "infer_defaults"
    /\ res = "Ok"
    /\ ~cfg.workspace_mode
    /\ arg.oracle.targets = <<LibTarget>>
    /\ cfg.build_lib = Specified(FALSE)
    /\ cfg.build_bin = Specified(Some("tool"))
    /\ cfg.target_dir = Inferred(Some(<<"/", "tgt", "rls">>))

\* C23: when infer_defaults succeeds with an absolute project root, the
\* same call made again at once, with the same project root and the same
\* oracle answers, succeeds too and returns the record the first call left.
C23_InferDefaultsIdempotent ==
    [][(/\ op' = "infer_defaults"
        /\ res' = "Ok"
        /\ is_absolute(arg'.project_dir)) =>
          LET again == infer_defaults(cfg', arg'.project_dir, arg'.oracle)
          IN  /\ again.res = "Ok"
              /\ again.cfg = cfg']_vars

C23_Witness ==
    /\ op = "infer_defaults"
    /\ res = "Ok"
    /\ arg.project_dir = <<"/", "proj">>
    /\ arg.oracle.targets = <<ToolTarget, MainTarget>>
    /\ cfg.target_dir = Specified(Some(<<"/", "proj", "out">>))
    /\ cfg.build_lib = Inferred(FALSE)
    /\ cfg.build_bin = Inferred(Some("app"))
    /\ infer_defaults(cfg, arg.project_dir, arg.oracle) = [cfg |-> cfg, res |-> "Ok"]

-----------------------------------------------------------------------------
(* Properties of the session (Spec) *)

\* C12: the record default() returns has build_lib = Inferred(false),
\* build_bin = Inferred(no name), target_dir = Inferred(no path), no
\* tri-state field Unset, workspace mode enabled, and normalise leaves it
\* as it is.
C12_DefaultIsInferredAndNormalised ==
    op = "default" =>
        /\ cfg.build_lib = Inferred(FALSE)
        /\ cfg.build_bin = Inferred(NoValue)
        /\ cfg.target_dir = Inferred(NoValue)
        /\ ~needs_inference(cfg)
        /\ cfg.workspace_mode = TRUE
        /\ normalise(cfg) = cfg

C12_Witness ==
    /\ op = "default"
    /\ channel = Some("stable")
    /\ cfg.unstable_features = FALSE
    /\ \A f \in TriFields : IsInferred(cfg[f])

\* C6: after update the live record's workspace_mode is true whatever the
\* incoming record asked for, so the flag is never false in a session.
C6_WorkspaceModePinned ==
    op = "update" => cfg.workspace_mode = TRUE

\* C22: in a session started from default(), no tri-state field of the
\* live record is ever Unset, before or after any update, normalise or
\* infer_defaults, so as_ref never reaches its unreachable branch on any
\* of them; in particular the as_ref call infer_defaults makes on target_dir
\* after the path rewrite does not.
C22_NeverUnset ==
    [][/\ \A f \in TriFields : ~as_ref_panics(cfg[f]) /\ ~as_ref_panics(cfg'[f])
       /\ op' = "infer_defaults" =>
             ~as_ref_panics(absolutise(cfg.target_dir, arg'.project_dir))]_vars

C22_Witness ==
    /\ op = "update"
    /\ \A f \in TriFields : is_none(arg[f]) /\ IsInferred(cfg[f])

-----------------------------------------------------------------------------
(* Properties of ClippyPreference decoding (SpecClippy) *)

\* C13: decoding is total and case-insensitive: the result is Off iff the
\* lowercase form of the string is "off", OptIn iff it is "optin" or
\* "opt-in", On iff it is "on"; "Optin", "opt-in", "OFF", "on" give OptIn,
\* OptIn, Off, On; every other string, "bogus" included, fails with the
\* unknown-variant error listing on, opt-in, off.
C13_ClippyDecoding ==
    IsSome(cp_result) =>
        LET r == Unwrap(cp_result)
            l == to_lowercase(cp_value)
            unknown == /\ ~r.ok
                       /\ r.err.kind = "unknown_variant"
                       /\ r.err.value = cp_value
                       /\ r.err.expected = <<"on", "opt-in", "off">>
        IN  /\ r = Ok("Off") <=> l = Str_off
            /\ r = Ok("OptIn") <=> (l = Str_optin \/ l = Str_opt_in)
            /\ r = Ok("On") <=> l = Str_on
            /\ r \in {Ok("Off"), Ok("OptIn"), Ok("On")} \/ unknown
            /\ cp_value = <<"O", "p", "t", "i", "n">> => r = Ok("OptIn")
            /\ cp_value = <<"o", "p", "t", "-", "i", "n">> => r = Ok("OptIn")
            /\ cp_value = <<"O", "F", "F">> => r = Ok("Off")
            /\ cp_value = <<"o", "n">> => r = Ok("On")
            /\ cp_value = <<"b", "o", "g", "u", "s">> => unknown

C13_Witness ==
    /\ cp_value = <<"O", "p", "t", "i", "n">>
    /\ cp_result = Some(Ok("OptIn"))

====
